---- MODULE Spec2Model ----
(***************************************************************************)
(* Model of the account form of src/src/stores/accountStore.ts: the pinia  *)
(* store (accounts, saveAccounts), the vee-validate form (values), the yup *)
(* schema, the tag codec and the handlers of the component.                *)
(*                                                                         *)
(* Text is a sequence of one-character strings, so that length, trimming   *)
(* and splitting are computed as the code computes them.  null and         *)
(* undefined are the two values Null and Undefined below, which are no     *)
(* text over the alphabet.                                                 *)
(*                                                                         *)
(* Scheduling.  A handler runs without interruption from one await to the *)
(* next.  At an await it is suspended, and any other suspended handler or  *)
(* any user event may run before it resumes; suspended handlers resume in  *)
(* any order.  For validate() and validateField() the library reads the    *)
(* form values at some moment of the suspension (actions validate and      *)
(* validateField) and the handler resumes later with that result (actions  *)
(* saveOnChangeResume and onBlurFieldResume).                              *)
(***************************************************************************)
EXTENDS Integers, Sequences, FiniteSets, TLC

VARIABLES
    accounts,   \* store.accounts: the persisted collection
    values,     \* values.accounts: the collection held by the form
    tasks,      \* the handlers suspended in an await, in order of their start
    nextId,     \* the next identifier crypto.randomUUID() hands out
    log         \* what the last step wrote to the console and the toast it
                \* added, if anything

vars == <<accounts, values, tasks, nextId, log>>

-----------------------------------------------------------------------------
(* Bounds of the model *)

MaxIds == 2         \* identifiers handed out in a run
MaxTasks == 2       \* handlers suspended at the same time (Spec)
MaxRows == 1        \* records in the form while handlers overlap (Spec)
MaxRecords == 2     \* records in the form when handlers run in turn (SpecSeq)
MaxText == 4        \* characters of a typed tags text (SpecCodec)
MaxTagCount == 3    \* tags of the record the tag rules are applied to (SpecTags)

-----------------------------------------------------------------------------
(* Values *)

Null == <<"null">>
Undefined == <<"undefined">>
EmptyText == <<>>

local == "local"
ldap == "ldap"
AccountType == {local, ldap}

MaxLogin == 100
MaxPassword == 100
MaxTag == 50
MaxTagsTotal == 50

Letters == {"a", "b", "o", "x", "A", "Z"}
Whitespace == {" ", "\n"}

IsText(v) == v # Null /\ v # Undefined
Falsy(v) == v = Null \/ v = Undefined \/ v = EmptyText
OrEmpty(v) == IF Falsy(v) THEN EmptyText ELSE v

Rep(n) == [i \in 1..n |-> "a"]

-----------------------------------------------------------------------------
(* The tag codec *)

RECURSIVE Split(_)
Split(s) ==
    IF s = <<>> THEN << <<>> >>
    ELSE LET rest == Split(Tail(s)) IN
         IF Head(s) = ";" THEN << <<>> >> \o rest
         ELSE << <<Head(s)>> \o Head(rest) >> \o Tail(rest)

RECURSIVE TrimStart(_)
TrimStart(s) ==
    IF s # <<>> /\ Head(s) \in Whitespace THEN TrimStart(Tail(s)) ELSE s

RECURSIVE TrimEnd(_)
TrimEnd(s) ==
    IF s # <<>> /\ s[Len(s)] \in Whitespace
    THEN TrimEnd(SubSeq(s, 1, Len(s) - 1)) ELSE s

\* mutant: only the leading whitespace is removed
TrimStartOnly(s) == TrimStart(s)

Trim(s) == TrimEnd(TrimStart(s))

RECURSIVE TrimmedNonEmpty(_)
TrimmedNonEmpty(segs) ==
    IF segs = <<>> THEN <<>>
    ELSE IF Trim(Head(segs)) # <<>>
         THEN <<Trim(Head(segs))>> \o TrimmedNonEmpty(Tail(segs))
         ELSE TrimmedNonEmpty(Tail(segs))

parseTags(tagString) ==
    IF Falsy(tagString) THEN <<>> ELSE TrimmedNonEmpty(Split(tagString))

\* mutant: the texts are joined without a separator
RECURSIVE JoinNoSeparator(_)
JoinNoSeparator(tags) ==
    IF tags = <<>> THEN <<>> ELSE Head(tags) \o JoinNoSeparator(Tail(tags))

RECURSIVE Join(_)
Join(tags) ==
    IF tags = <<>> THEN <<>>
    ELSE IF Len(tags) = 1 THEN Head(tags)
    ELSE Head(tags) \o <<";">> \o Join(Tail(tags))

\* the text the tags input shows for the tags of a record
tagsModelValue(tags) == OrEmpty(Join(tags))

-----------------------------------------------------------------------------
(* The yup schema.  A rule is a predicate on the value of its field; the   *)
(* password rule reads the record's type when it is evaluated.             *)

MatchesTagPattern(text) ==
    text # <<>> /\ \A i \in 1..Len(text) : text[i] \in Letters \cup {";"}

TagTextValid(text) ==
    /\ Len(text) <= MaxTag
    /\ MatchesTagPattern(text)
    /\ text # <<>>

RECURSIVE Reduce(_, _)
Reduce(tags, sum) ==
    IF tags = <<>> THEN sum ELSE Reduce(Tail(tags), sum + Len(Head(tags)) + 1)

\* mutant: the sum starts from 0, so that every tag counts a separator
TotalLengthFromZero(tags) == Reduce(tags, 0)

TotalLength(tags) == Reduce(tags, -1)

\* the test named total-length
TotalLengthTest(tags) == TotalLength(tags) <= MaxTagsTotal

TagsValid(tags) ==
    /\ \A j \in 1..Len(tags) : TagTextValid(tags[j])
    /\ TotalLengthTest(tags)

TypeValid(type) == type \in AccountType

LoginValid(login) ==
    /\ IsText(login) /\ login # <<>>
    /\ Len(login) <= MaxLogin

PasswordRequired(password) ==
    /\ IsText(password) /\ password # <<>>
    /\ Len(password) >= 1

\* mutant: the branch of the password rule is not taken from the type
PasswordValidUnconditional(password, type) ==
    IsText(password) => Len(password) <= MaxPassword

PasswordValid(password, type) ==
    /\ IsText(password) => Len(password) <= MaxPassword
    /\ IF type = local THEN PasswordRequired(password) ELSE TRUE

Fields == {"tags", "type", "login", "password"}

FieldValid(account, field) ==
    CASE field = "tags" -> TagsValid(account.tags)
      [] field = "type" -> TypeValid(account.type)
      [] field = "login" -> LoginValid(account.login)
      [] field = "password" -> PasswordValid(account.password, account.type)

\* mutant: only the first record of the collection is validated
SchemaErrorsFirstRecord(accs) ==
    {p \in ((1..Len(accs)) \cap {1}) \X Fields : ~FieldValid(accs[p[1]], p[2])}

\* the error map of the whole collection, keyed by <<record index, field>>
SchemaErrors(accs) ==
    {p \in (1..Len(accs)) \X Fields : ~FieldValid(accs[p[1]], p[2])}

-----------------------------------------------------------------------------
(* The form and the store *)

NoId == 0

Account(id, login, password, type, tags) ==
    [id |-> id, login |-> login, password |-> password, type |-> type,
     tags |-> tags]

NewAccount(id) == Account(id, EmptyText, EmptyText, local, <<>>)

SetField(accs, index, field, value) ==
    [accs EXCEPT ![index] = [@ EXCEPT ![field] = value]]

\* setFieldValue: the field of the addressed record is replaced; a path that
\* addresses no record of the collection changes no record
setFieldValue(accs, index, field, value) ==
    IF index \in 1..Len(accs) THEN SetField(accs, index, field, value) ELSE accs

Remove(seq, index) ==
    SubSeq(seq, 1, index - 1) \o SubSeq(seq, index + 1, Len(seq))

\* the number of records before position i that have no id
RECURSIVE MissingIds(_, _)
MissingIds(accs, i) ==
    IF i <= 1 THEN 0
    ELSE MissingIds(accs, i - 1) + (IF accs[i - 1].id = NoId THEN 1 ELSE 0)

\* mutant: the password is persisted as the form holds it
NormalizedPasswordKept(account) == account.password

\* mutant: every password is persisted as null
NormalizedPasswordNull(account) == Null

NormalizedPassword(account) ==
    IF account.type = ldap /\ Falsy(account.password)
    THEN Null ELSE account.password

\* mutant: the snapshot is built from the persisted collection
AccountsToSaveStale(accs, fresh) == accounts

AccountsToSave(accs, fresh) ==
    [i \in 1..Len(accs) |->
        [accs[i] EXCEPT
            !.id = IF accs[i].id = NoId THEN fresh + MissingIds(accs, i)
                   ELSE accs[i].id,
            !.password = NormalizedPassword(accs[i])]]

saveAccounts(newAccounts) == accounts' = newAccounts

-----------------------------------------------------------------------------
(* Suspended handlers.  op names the handler that was triggered, pc the    *)
(* await it is suspended in; valid holds the result of the awaited         *)
(* validation once the library has produced it.  index, field and value    *)
(* are the handler's parameters; onBlurField's are dropped once it has     *)
(* read them for the last time.                                            *)

\* what a step emits: the console message, the handler whose cycle wrote it
\* and the severity of the toast that was added, if one was
NoLog == [msg |-> "-", op |-> "-", toast |-> "-"]
Saved(op) == [msg |-> "Accounts saved", op |-> op, toast |-> "success"]

\* mutant: a rejected cycle adds the toast as well
FailedWithToast(op) ==
    [msg |-> "Validation failed", op |-> op, toast |-> "success"]

Failed(op) == [msg |-> "Validation failed", op |-> op, toast |-> "-"]

Task(op, pc, index, field, value) ==
    [op |-> op, pc |-> pc, index |-> index, field |-> field, value |-> value,
     valid |-> FALSE]

InFlight(t) == t.pc \in {"validate", "validated"}

\* what the user can type or select
LoginInputs == {Undefined, EmptyText, <<"b", "o", "b">>}
PasswordInputs == {Undefined, <<"x">>}
TagInputs == {Undefined, <<" ", "a", "1", ";", " ">>}
\* the same, and a text of two valid tags, typed when handlers run in turn
SeqTagInputs == TagInputs \cup {<<"a", ";", "b">>}
BlurFields == {"login", "password", "tags"}

\* the widths the inputs of the template accept
LoginMaxlength == 100
PasswordMaxlength == 100
TagsMaxlength == 50

Typeable(value, maxlength) == IsText(value) => Len(value) <= maxlength

\* the password input is rendered for local records only
PasswordShown(index) == values[index].type = local

Rows == 1..Len(values)

Init ==
    /\ accounts = <<>>
    /\ values = <<>>
    /\ tasks = <<>>
    /\ nextId = 1
    /\ log = NoLog

\* the page is loaded again: the form starts from the persisted collection
Mount ==
    /\ values' = accounts
    /\ tasks' = <<>>
    /\ log' = NoLog
    /\ UNCHANGED <<accounts, nextId>>

\* mutant: every pushed record carries the same id
addAccountSameId ==
    /\ values' = Append(values, NewAccount(1))
    /\ nextId' = nextId + 1
    /\ log' = NoLog
    /\ UNCHANGED <<accounts, tasks>>

addAccount ==
    /\ values' = Append(values, NewAccount(nextId))
    /\ nextId' = nextId + 1
    /\ log' = NoLog
    /\ UNCHANGED <<accounts, tasks>>

updateTags(value, index) ==
    /\ Typeable(value, TagsMaxlength)
    /\ values' = setFieldValue(values, index, "tags",
                               parseTags(OrEmpty(value)))
    /\ log' = NoLog
    /\ UNCHANGED <<accounts, tasks, nextId>>

\* mutant: the edit also starts a save cycle
updateLoginAndSave(value, index) ==
    /\ Typeable(value, LoginMaxlength)
    /\ values' = setFieldValue(values, index, "login", OrEmpty(value))
    /\ tasks' = Append(tasks, Task("updateLogin", "validate", 0, "-", "-"))
    /\ log' = NoLog
    /\ UNCHANGED <<accounts, nextId>>

updateLogin(value, index) ==
    /\ Typeable(value, LoginMaxlength)
    /\ values' = setFieldValue(values, index, "login", OrEmpty(value))
    /\ log' = NoLog
    /\ UNCHANGED <<accounts, tasks, nextId>>

updatePassword(value, index) ==
    /\ PasswordShown(index)
    /\ Typeable(value, PasswordMaxlength)
    /\ values' = setFieldValue(values, index, "password", OrEmpty(value))
    /\ log' = NoLog
    /\ UNCHANGED <<accounts, tasks, nextId>>

\* saveOnChange up to its await: validate() is called and the handler
\* suspends in it
saveOnChange(task) == [task EXCEPT !.pc = "validate", !.valid = FALSE]

handleTypeChange(value, index) ==
    /\ values' = setFieldValue(values, index, "type", value)
    /\ tasks' = Append(tasks, Task("handleTypeChange", "typeSet", index,
                                   "type", value))
    /\ log' = NoLog
    /\ UNCHANGED <<accounts, nextId>>

\* after the first await: the password is cleared for ldap (and the handler
\* suspends again), otherwise saveOnChange is called
handleTypeChangePassword(k) ==
    /\ tasks[k].pc = "typeSet"
    /\ IF tasks[k].value = ldap
       THEN /\ values' = setFieldValue(values, tasks[k].index, "password",
                                       EmptyText)
            /\ tasks' = [tasks EXCEPT ![k].pc = "passwordSet"]
       ELSE /\ tasks' = [tasks EXCEPT ![k] = saveOnChange(@)]
            /\ UNCHANGED values
    /\ log' = NoLog
    /\ UNCHANGED <<accounts, nextId>>

handleTypeChangeSave(k) ==
    /\ tasks[k].pc = "passwordSet"
    /\ tasks' = [tasks EXCEPT ![k] = saveOnChange(@)]
    /\ log' = NoLog
    /\ UNCHANGED <<accounts, values, nextId>>

onBlurField(index, field) ==
    /\ field = "password" => PasswordShown(index)
    /\ tasks' = Append(tasks, Task("onBlurField", "validateField", index,
                                   field, "-"))
    /\ log' = NoLog
    /\ UNCHANGED <<accounts, values, nextId>>

\* mutant: the entry is removed and no save is started
deleteAccountNoSave(index) ==
    /\ values' = Remove(values, index)
    /\ log' = NoLog
    /\ UNCHANGED <<accounts, tasks, nextId>>

\* mutant: the last entry is removed, whatever the index
deleteAccountLast(index) ==
    /\ values' = SubSeq(values, 1, Len(values) - 1)
    /\ tasks' = Append(tasks, Task("deleteAccount", "validate", 0, "-", "-"))
    /\ log' = NoLog
    /\ UNCHANGED <<accounts, nextId>>

deleteAccount(index) ==
    /\ values' = Remove(values, index)
    /\ tasks' = Append(tasks, saveOnChange(Task("deleteAccount", "", 0, "-",
                                                "-")))
    /\ log' = NoLog
    /\ UNCHANGED <<accounts, nextId>>

\* the library evaluates the rule of the committed field; a path that no
\* longer addresses a record has no rule, and its result is left open
validateField(k) ==
    /\ tasks[k].pc = "validateField"
    /\ \E valid \in BOOLEAN :
        /\ tasks[k].index \in Rows =>
               valid = FieldValid(values[tasks[k].index], tasks[k].field)
        /\ tasks' = [tasks EXCEPT ![k].pc = "fieldValidated",
                                  ![k].valid = valid]
    /\ log' = NoLog
    /\ UNCHANGED <<accounts, values, nextId>>

\* mutant: the save is started whatever the result for the committed field
onBlurFieldResumeUngated(k) ==
    /\ tasks[k].pc = "fieldValidated"
    /\ tasks' = [tasks EXCEPT
                    ![k] = saveOnChange(Task("onBlurField", "", 0, "-", "-"))]
    /\ log' = NoLog
    /\ UNCHANGED <<accounts, values, nextId>>

onBlurFieldResume(k) ==
    /\ tasks[k].pc = "fieldValidated"
    /\ IF tasks[k].valid
       THEN tasks' = [tasks EXCEPT
                         ![k] = saveOnChange(Task("onBlurField", "", 0, "-",
                                                  "-"))]
       ELSE tasks' = Remove(tasks, k)
    /\ log' = NoLog
    /\ UNCHANGED <<accounts, values, nextId>>

\* the library evaluates the schema on the whole collection
validate(k) ==
    /\ tasks[k].pc = "validate"
    /\ tasks' = [tasks EXCEPT ![k].pc = "validated",
                              ![k].valid = (SchemaErrors(values) = {})]
    /\ log' = NoLog
    /\ UNCHANGED <<accounts, values, nextId>>

\* mutant: the handler resumes only from a validation that succeeded
saveOnChangeResumeValidOnly(k) ==
    /\ tasks[k].pc = "validated"
    /\ tasks[k].valid
    /\ saveAccounts(AccountsToSave(values, nextId))
    /\ nextId' = nextId + MissingIds(values, Len(values) + 1)
    /\ log' = Saved(tasks[k].op)
    /\ tasks' = Remove(tasks, k)
    /\ UNCHANGED values

saveOnChangeResume(k) ==
    /\ tasks[k].pc = "validated"
    /\ IF tasks[k].valid
       THEN /\ saveAccounts(AccountsToSave(values, nextId))
            /\ nextId' = nextId + MissingIds(values, Len(values) + 1)
            /\ log' = Saved(tasks[k].op)
       ELSE /\ log' = Failed(tasks[k].op)
            /\ UNCHANGED <<accounts, nextId>>
    /\ tasks' = Remove(tasks, k)
    /\ UNCHANGED values

-----------------------------------------------------------------------------
(* Specifications.  The user's events are bounded by the number of records *)
(* in the form, of identifiers handed out and of handlers suspended at the *)
(* same time.                                                              *)

EditWith(tagInputs) ==
    \/ \E index \in Rows, value \in tagInputs : updateTags(value, index)
    \/ \E index \in Rows, value \in LoginInputs : updateLogin(value, index)
    \/ \E index \in Rows, value \in PasswordInputs : updatePassword(value, index)

Trigger ==
    \/ \E index \in Rows, value \in AccountType : handleTypeChange(value, index)
    \/ \E index \in Rows, field \in BlurFields : onBlurField(index, field)
    \/ \E index \in Rows : deleteAccount(index)

UserEvent(maxRecords, maxTasks, tagInputs) ==
    \/ Mount
    \/ Len(values) < maxRecords /\ nextId <= MaxIds /\ addAccount
    \/ EditWith(tagInputs)
    \/ Len(tasks) < maxTasks /\ Trigger

Resumption ==
    \/ \E k \in 1..Len(tasks) : handleTypeChangePassword(k)
    \/ \E k \in 1..Len(tasks) : handleTypeChangeSave(k)
    \/ \E k \in 1..Len(tasks) : validateField(k)
    \/ \E k \in 1..Len(tasks) : onBlurFieldResume(k)
    \/ \E k \in 1..Len(tasks) : validate(k)
    \/ \E k \in 1..Len(tasks) : saveOnChangeResume(k)

\* events arrive at any moment, also while handlers are suspended
Next == UserEvent(MaxRows, MaxTasks, TagInputs) \/ Resumption

Spec == Init /\ [][Next]_vars

\* every handler finishes before the next event arrives
NextSeq ==
    (tasks = <<>> /\ UserEvent(MaxRecords, 1, SeqTagInputs)) \/ Resumption

SpecSeq == Init /\ [][NextSeq]_vars

\* as SpecSeq, and every awaited promise is eventually settled
SpecSeqFair == SpecSeq /\ WF_vars(Resumption)

\* The schema applied to single records: the form holds one record, drawn
\* from texts the inputs accept, and one save cycle validates it.
SchemaLogins == {EmptyText, <<"b", "o", "b">>, Rep(LoginMaxlength)}
SchemaPasswords == {Null, EmptyText, <<"x">>, Rep(PasswordMaxlength)}
SchemaTags == {<<>>, <<<<"a">>, <<"b">>>>, <<<<"a", "1">>>>}

SchemaRecords ==
    {Account(1, login, password, type, tags) :
        login \in SchemaLogins, password \in SchemaPasswords,
        type \in AccountType, tags \in SchemaTags}

InitSchema ==
    /\ accounts = <<>>
    /\ values \in {<<r>> : r \in SchemaRecords}
    /\ tasks = <<saveOnChange(Task("saveOnChange", "", 0, "-", "-"))>>
    /\ nextId = 2
    /\ log = NoLog

NextSchema ==
    \/ \E k \in 1..Len(tasks) : validate(k)
    \/ \E k \in 1..Len(tasks) : saveOnChangeResume(k)

SpecSchema == InitSchema /\ [][NextSchema]_vars

\* The tag rules applied to single records: the form holds one local record
\* with a valid login and password and a sequence of tags of the lengths
\* below, and one save cycle validates it.
TagLengths == {0, 1, 16, 17, 24, 25, 26, 50, 51}

RECURSIVE TagSequences(_)
TagSequences(n) ==
    IF n = 0 THEN {<<>>}
    ELSE LET shorter == TagSequences(n - 1) IN
         shorter \cup {Append(tags, Rep(l)) :
                           tags \in {t \in shorter : Len(t) = n - 1},
                           l \in TagLengths}

InitTags ==
    /\ accounts = <<>>
    /\ values \in {<<Account(1, <<"b", "o", "b">>, <<"x">>, local, tags)>> :
                       tags \in TagSequences(MaxTagCount)}
    /\ tasks = <<saveOnChange(Task("saveOnChange", "", 0, "-", "-"))>>
    /\ nextId = 2
    /\ log = NoLog

SpecTags == InitTags /\ [][NextSchema]_vars

\* The tag codec applied to typed texts: the form holds one record, and the
\* user types into its tags input any text of up to MaxText characters over
\* the alphabet below, or one of three longer texts.
CodecAlphabet == {"a", "b", ";", " ", "\n"}

RECURSIVE Texts(_)
Texts(n) ==
    IF n = 0 THEN {<<>>}
    ELSE LET shorter == Texts(n - 1) IN
         shorter \cup {Append(t, c) : t \in {u \in shorter : Len(u) = n - 1},
                                       c \in CodecAlphabet}

CodecTexts ==
    Texts(MaxText) \cup {Undefined,
                         <<"a", ";", "b", ";", "c">>,
                         <<" ", "a", " ", ";", " ", ";", " ", "b">>,
                         <<"a", " ", "b", ";", ";", "\n", "c", " ">>}

InitCodec ==
    /\ accounts = <<>>
    /\ values = <<NewAccount(1)>>
    /\ tasks = <<>>
    /\ nextId = 2
    /\ log = NoLog

\* one text is typed into the tags input of the fresh record
NextCodec ==
    /\ values = <<NewAccount(1)>>
    /\ \E value \in CodecTexts : updateTags(value, 1)

SpecCodec == InitCodec /\ [][NextCodec]_vars

-----------------------------------------------------------------------------
(* The record rules as the specification states them, for the properties.  *)

RECURSIVE SumOfLengths(_)
SumOfLengths(tags) ==
    IF tags = <<>> THEN 0 ELSE Len(Head(tags)) + SumOfLengths(Tail(tags))

LoginOk(r) == IsText(r.login) /\ Len(r.login) \in 1..100

PasswordOk(r) ==
    IF r.type = local
    THEN IsText(r.password) /\ Len(r.password) \in 1..100
    ELSE IsText(r.password) => Len(r.password) <= 100

TagsOk(r) ==
    /\ \A j \in 1..Len(r.tags) :
          /\ Len(r.tags[j]) \in 1..50
          /\ \A c \in 1..Len(r.tags[j]) : r.tags[j][c] \in Letters \cup {";"}
    /\ r.tags # <<>> => SumOfLengths(r.tags) + (Len(r.tags) - 1) <= 50

RecordOk(r) == LoginOk(r) /\ PasswordOk(r) /\ TagsOk(r)

CollectionOk(accs) == \A i \in 1..Len(accs) : RecordOk(accs[i])

FieldOk(r, field) ==
    CASE field = "login" -> LoginOk(r)
      [] field = "password" -> PasswordOk(r)
      [] field = "tags" -> TagsOk(r)

\* the snapshot a save hands to the store: directory records without a
\* password text carry null
Snapshot(accs) ==
    [i \in 1..Len(accs) |->
        IF accs[i].type = ldap /\ accs[i].password \in {EmptyText, Null}
        THEN [accs[i] EXCEPT !.password = Null] ELSE accs[i]]

\* the step completes the save cycle of the k-th suspended handler
Completes(k) ==
    /\ k \in 1..Len(tasks)
    /\ tasks[k].pc = "validated"
    /\ tasks' = Remove(tasks, k)
    /\ log' # NoLog

\* the step is the library's validation pass for the k-th suspended handler
Validates(k) ==
    /\ k \in 1..Len(tasks)
    /\ tasks[k].pc = "validate"
    /\ Len(tasks') = Len(tasks)
    /\ tasks'[k].pc = "validated"

Tasks == 1..Len(tasks)

-----------------------------------------------------------------------------
\* C1: whole-collection gating.  The store is written only by a step that
\* completes a save cycle whose validation succeeded; a validation pass
\* succeeds exactly when every record of the collection satisfies every rule;
\* and a cycle that completes while some record violates a rule writes
\* nothing, leaves the store as it was and reports the failure.
C1_WholeCollectionGating ==
    [][ /\ (accounts' # accounts \/ log'.msg = "Accounts saved") =>
               \E k \in Tasks : Completes(k) /\ tasks[k].valid
        /\ \A k \in Tasks : Validates(k) =>
               (tasks'[k].valid <=> CollectionOk(values))
        /\ \A k \in Tasks : (Completes(k) /\ ~CollectionOk(values)) =>
               (accounts' = accounts /\ log'.msg = "Validation failed")
      ]_vars

\* a valid edit of record 1 was committed while record 2 violates a rule: the
\* cycle was rejected and the store still holds the earlier collection
C1_Witness ==
    /\ log = Failed("onBlurField")
    /\ Len(values) = 2 /\ RecordOk(values[1]) /\ ~RecordOk(values[2])
    /\ Len(accounts) = 1 /\ accounts[1].type # values[1].type

-----------------------------------------------------------------------------
\* C2: every collection handed to the store satisfies all record rules at
\* the moment it is written (stated of the step that has just written it).
C2_SnapshotValid ==
    log.msg = "Accounts saved" => CollectionOk(accounts)

-----------------------------------------------------------------------------
\* C3: save cycles are serialized: at no time are two save cycles in flight,
\* a cycle being in flight from its call of validate() to its completion.
C3_CyclesSerialized ==
    Cardinality({k \in Tasks : InFlight(tasks[k])}) <= 1

-----------------------------------------------------------------------------
\* C4: no stale overwrite.  The collection a save writes is the snapshot of
\* the form's collection as it is at the moment of the write, whatever was
\* edited since the cycle was triggered.
C4_NoStaleOverwrite ==
    log.msg = "Accounts saved" => accounts = Snapshot(values)

\* a cycle has just written while another cycle, which validated an earlier
\* and invalid state of the collection, is still suspended
C4_Witness ==
    /\ log.msg = "Accounts saved"
    /\ accounts # <<>>
    /\ \E k \in Tasks : tasks[k].pc = "validated" /\ ~tasks[k].valid

-----------------------------------------------------------------------------
\* C5: no collection written to the store holds a directory (ldap) record
\* with a password other than null.
C5_DirectoryPasswordNull ==
    \A i \in 1..Len(accounts) :
        accounts[i].type = ldap => accounts[i].password = Null

-----------------------------------------------------------------------------
\* the k-th suspended handler is a type change to `value` of record i
TypeChange(k, i, value) ==
    /\ tasks[k].op = "handleTypeChange"
    /\ tasks[k].index = i
    /\ tasks[k].value = value

\* every field of the collection other than the password of record i is valid
OtherwiseOk(accs, i) ==
    /\ i \in 1..Len(accs)
    /\ LoginOk(accs[i]) /\ TagsOk(accs[i])
    /\ \A j \in 1..Len(accs) : j # i => RecordOk(accs[j])

Records == 1..MaxRecords

\* C6 as amended: when handlers run in turn, a change of record i to
\* directory (ldap) in an otherwise valid collection leads to a completed
\* save after which the form holds the empty text as record i's password
\* and the store holds record i with type ldap and password null.
C6_TypeChangeToDirectorySaves ==
    \A i \in Records :
        (\E k \in Tasks : /\ TypeChange(k, i, ldap)
                          /\ tasks[k].pc = "typeSet"
                          /\ OtherwiseOk(values, i))
        ~> (/\ log = Saved("handleTypeChange")
            /\ Len(accounts) = Len(values) /\ i \in 1..Len(accounts)
            /\ accounts[i].type = ldap /\ accounts[i].password = Null
            /\ values[i].type = ldap /\ values[i].password = EmptyText)

\* C6 as stated: the change makes the password of record i in the collection
\* null, and the save it fires persists type ldap and password null.
C6_AsStated ==
    [][\A k \in Tasks :
          (Completes(k) /\ tasks[k].op = "handleTypeChange"
             /\ tasks[k].value = ldap /\ tasks[k].valid)
          => /\ values[tasks[k].index].password = Null
             /\ accounts'[tasks[k].index].type = ldap
             /\ accounts'[tasks[k].index].password = Null
      ]_vars

\* the cycle of a type change has saved a directory record: null in the
\* store, the empty text in the form
C6_Witness ==
    /\ log = Saved("handleTypeChange")
    /\ Len(values) = 1 /\ Len(accounts) = 1
    /\ accounts[1].type = ldap /\ accounts[1].password = Null
    /\ values[1].password = EmptyText
    /\ values[1].login = <<"b", "o", "b">>

-----------------------------------------------------------------------------
\* C7: when handlers run in turn, removing a record starts a save cycle (a
\* step that drops a record is a removal unless it leaves the form equal to
\* the store, which a reload of the page also does), the
\* collection is not changed while that cycle is suspended, and if the
\* records that remain are all valid the cycle leads to a completed save
\* after which the store holds exactly the remaining records.
C7_RemovalSavesRemaining ==
    /\ [][ /\ \A index \in Rows :
                (values' = Remove(values, index) /\ values' # accounts) =>
                    tasks' = <<saveOnChange(Task("deleteAccount", "", 0, "-",
                                                 "-"))>>
           /\ (\E k \in Tasks : tasks[k].op = "deleteAccount") =>
                    values' = values
         ]_vars
    /\ (\E k \in Tasks : /\ tasks[k].op = "deleteAccount"
                         /\ tasks[k].pc = "validate"
                         /\ CollectionOk(values))
       ~> (log = Saved("deleteAccount") /\ accounts = Snapshot(values))

\* a removal has been saved: one record remains, in the form and in the store
C7_Witness ==
    /\ log = Saved("deleteAccount")
    /\ Len(values) = 1 /\ values[1].id = 2
    /\ accounts = Snapshot(values)

-----------------------------------------------------------------------------
\* C8: the conditional password rule.  A validation pass over a local record
\* whose password is empty or null fails; a validation pass over a directory
\* (ldap) record whose other fields are valid succeeds, whatever password
\* text the record holds.
C8_ConditionalPasswordRule ==
    \A k \in Tasks : tasks[k].pc = "validated" =>
        /\ (values[1].type = local /\ values[1].password \in {EmptyText, Null})
               => ~tasks[k].valid
        /\ (values[1].type = ldap /\ LoginOk(values[1]) /\ TagsOk(values[1]))
               => tasks[k].valid

\* a directory record that still holds a password text of full length has
\* passed validation
C8_Witness ==
    /\ tasks # <<>> /\ tasks[1].pc = "validated" /\ tasks[1].valid
    /\ values[1].type = ldap
    /\ values[1].password = Rep(PasswordMaxlength)

-----------------------------------------------------------------------------
\* C9: the password rule follows the record's current type.  When handlers
\* run in turn, the validation pass of the cycle a type change of record i
\* started sees the new type; after a change to local with an empty or null
\* password it fails with a password error for record i, and the cycle
\* writes nothing; after a change to directory (ldap) with every other field
\* valid it succeeds, and the cycle saves.
C9_RuleFollowsType ==
    [][\A k \in Tasks : \A i \in Rows :
          /\ (Validates(k) /\ TypeChange(k, i, local)
                /\ values[i].password \in {EmptyText, Null})
             => /\ values[i].type = local
                /\ ~tasks'[k].valid
                /\ <<i, "password">> \in SchemaErrors(values)
          /\ (Validates(k) /\ TypeChange(k, i, ldap) /\ OtherwiseOk(values, i))
             => /\ values[i].type = ldap
                /\ tasks'[k].valid
          /\ (Completes(k) /\ TypeChange(k, i, local)
                /\ values[i].password \in {EmptyText, Null})
             => /\ accounts' = accounts
                /\ log' = Failed("handleTypeChange")
          /\ (Completes(k) /\ TypeChange(k, i, ldap) /\ OtherwiseOk(values, i))
             => log' = Saved("handleTypeChange")
      ]_vars

\* a directory record loaded with password null was changed to local: the
\* cycle was rejected and the store still holds the directory record
C9_Witness ==
    /\ log = Failed("handleTypeChange")
    /\ Len(values) = 1 /\ Len(accounts) = 1
    /\ values[1].type = local /\ values[1].password = Null
    /\ LoginOk(values[1]) /\ TagsOk(values[1])
    /\ accounts[1].type = ldap

-----------------------------------------------------------------------------
\* C10: blur gating.  The result for the committed field is the field's own
\* rule on the addressed record; a commit whose field was found invalid
\* never goes on to the full validation, and it ends without a write to the
\* store and without a message.
C10_BlurGating ==
    [][\A k \in Tasks :
          /\ (tasks[k].pc = "validateField" /\ Len(tasks') = Len(tasks)
                /\ tasks'[k].pc = "fieldValidated" /\ tasks[k].index \in Rows)
             => (tasks'[k].valid <=>
                    FieldOk(values[tasks[k].index], tasks[k].field))
          /\ (tasks[k].pc = "fieldValidated" /\ ~tasks[k].valid
                /\ Len(tasks') = Len(tasks))
             => tasks'[k] = tasks[k]
          /\ (tasks[k].pc = "fieldValidated" /\ ~tasks[k].valid
                /\ tasks' = Remove(tasks, k))
             => (accounts' = accounts /\ log' = NoLog)
      ]_vars

\* the committed password of a local record is empty, every other field of
\* the collection is valid, and the commit has been found invalid
C10_Witness ==
    \E k \in Tasks :
        /\ tasks[k].pc = "fieldValidated" /\ ~tasks[k].valid
        /\ tasks[k].field = "password" /\ tasks[k].index = 1
        /\ OtherwiseOk(values, 1) /\ values[1].password = EmptyText
        /\ accounts # <<>>

-----------------------------------------------------------------------------
\* the step leaves everything but the given field of record `index` as it
\* was: the store, the suspended handlers, the number and order of the
\* records, every other record and every other field of the record
OnlyFieldChanges(index, field) ==
    /\ accounts' = accounts
    /\ tasks' = tasks
    /\ Len(values') = Len(values)
    /\ \A j \in Rows : j # index => values'[j] = values[j]
    /\ \A f \in {"id", "login", "password", "type", "tags"} \ {field} :
          values'[index][f] = values[index][f]

\* the text an input hands over, an absent value standing for the empty text
Typed(value) == IF value = Undefined THEN EmptyText ELSE value

\* C11: an edit neither validates nor persists.  A step of updateLogin,
\* updatePassword or updateTags puts the typed value (for tags, its decoded
\* form) into the addressed field of the addressed record and changes nothing
\* else: the store, every other record and every other field stay as they
\* were, and no handler is suspended or resumed by it, so no save cycle
\* starts.
C11_EditChangesOnlyField ==
    [][\A index \in Rows :
          /\ \A value \in LoginInputs : updateLogin(value, index) =>
                /\ OnlyFieldChanges(index, "login")
                /\ values'[index].login = Typed(value)
          /\ \A value \in PasswordInputs : updatePassword(value, index) =>
                /\ OnlyFieldChanges(index, "password")
                /\ values'[index].password = Typed(value)
          /\ \A value \in SeqTagInputs : updateTags(value, index) =>
                /\ OnlyFieldChanges(index, "tags")
                /\ values'[index].tags = parseTags(Typed(value))
      ]_vars

\* the login of the second record was typed after the first record was
\* saved: the store still holds the first record only and no handler is
\* suspended
C11_Witness ==
    /\ Len(values) = 2 /\ Len(accounts) = 1
    /\ values[1] = accounts[1]
    /\ values[2].login = <<"b", "o", "b">> /\ values[2].password = EmptyText
    /\ tasks = <<>> /\ log = NoLog

-----------------------------------------------------------------------------
\* C12: the total-length rule.  A tag sequence passes the rule exactly when
\* the sum of the lengths of its tag texts plus one separator between each
\* two neighbours (count - 1 of them) is at most 50, and the empty sequence
\* passes; a validation pass over a record whose tag texts and other fields
\* are each valid succeeds exactly in that case.
C12_TotalLengthRule ==
    LET tags == values[1].tags
        serialized == SumOfLengths(tags) + (Len(tags) - 1)
    IN  /\ TotalLengthTest(tags) <=> (tags = <<>> \/ serialized <= 50)
        /\ \A k \in Tasks :
              (tasks[k].pc = "validated"
                 /\ \A j \in 1..Len(tags) : Len(tags[j]) \in 1..50)
              => (tasks[k].valid <=> (tags = <<>> \/ serialized <= 50))

\* two tags of 25 and 24 characters, 50 with their separator, have passed
C12_Witness ==
    /\ tasks # <<>> /\ tasks[1].pc = "validated" /\ tasks[1].valid
    /\ Len(values[1].tags) = 2
    /\ Len(values[1].tags[1]) = 25 /\ Len(values[1].tags[2]) = 24

-----------------------------------------------------------------------------
(* decode as the specification states it: the segments between the         *)
(* separators, each without its surrounding whitespace, the blank ones     *)
(* left out, in the order of the text.                                     *)

\* the positions of the separators of a text, with both of its ends
Boundaries(text) ==
    {0, Len(text) + 1} \cup {i \in 1..Len(text) : text[i] = ";"}

\* the k-th boundary from the left
Boundary(text, k) ==
    CHOOSE p \in Boundaries(text) :
        Cardinality({q \in Boundaries(text) : q < p}) = k - 1

Segments(text) ==
    [k \in 1..(Cardinality(Boundaries(text)) - 1) |->
        SubSeq(text, Boundary(text, k) + 1, Boundary(text, k + 1) - 1)]

\* a segment from its first to its last character that is no whitespace
Stripped(seg) ==
    LET solid == {i \in 1..Len(seg) : seg[i] \notin Whitespace} IN
    IF solid = {} THEN <<>>
    ELSE SubSeq(seg, CHOOSE i \in solid : \A j \in solid : i <= j,
                     CHOOSE i \in solid : \A j \in solid : i >= j)

NotBlank(seg) == seg # <<>>

Decoded(text) ==
    SelectSeq([k \in 1..Len(Segments(text)) |-> Stripped(Segments(text)[k])],
              NotBlank)

\* C13: decode.  Typing a text into the tags input leaves in the record the
\* segments of the text between its separators ';', each trimmed of its
\* surrounding whitespace, without the segments that are blank, in the order
\* of the text: "a;b;c" gives a, b, c; the empty text gives no tag;
\* " a ; ; b" gives a, b.  No tag so produced is empty, begins or ends with
\* whitespace, or contains ';'.
C13_Decode ==
    [][\A value \in CodecTexts : updateTags(value, 1) =>
          LET tags == values'[1].tags IN
          /\ tags = Decoded(Typed(value))
          /\ value = <<"a", ";", "b", ";", "c">> =>
                 tags = << <<"a">>, <<"b">>, <<"c">> >>
          /\ value = EmptyText => tags = <<>>
          /\ value = <<" ", "a", " ", ";", " ", ";", " ", "b">> =>
                 tags = << <<"a">>, <<"b">> >>
          /\ \A j \in 1..Len(tags) :
                /\ tags[j] # <<>>
                /\ tags[j][1] \notin Whitespace
                /\ tags[j][Len(tags[j])] \notin Whitespace
                /\ \A c \in 1..Len(tags[j]) : tags[j][c] # ";"
      ]_vars

\* the text "a b;;\nc " has been decoded: two tags, the first with its inner
\* blank, the second trimmed
C13_Witness ==
    values[1].tags = << <<"a", " ", "b">>, <<"c">> >>

-----------------------------------------------------------------------------
\* C14: round trip.  For the tags decode has produced, decoding the text the
\* tags input shows for them (the texts joined with ';') gives a sequence
\* that the same round trip leaves unchanged: decode after encode applied
\* twice equals decode after encode applied once.  It is in fact the tags
\* themselves.
C14_RoundTrip ==
    LET tags == values[1].tags
        once == parseTags(tagsModelValue(tags))
        twice == parseTags(tagsModelValue(once))
    IN  twice = once /\ once = tags

\* three tags have been decoded, and the text shown for them is "a;b;c"
C14_Witness ==
    /\ Len(values[1].tags) = 3
    /\ tagsModelValue(values[1].tags) = <<"a", ";", "b", ";", "c">>

-----------------------------------------------------------------------------
\* the ids of a collection, in its order
Ids(accs) == [i \in 1..Len(accs) |-> accs[i].id]

\* no two entries of the collection carry the same id, and each carries one
UniqueIds(accs) ==
    /\ \A i \in 1..Len(accs) : accs[i].id # NoId
    /\ \A i, j \in 1..Len(accs) : i # j => accs[i].id # accs[j].id

\* C15: identity uniqueness.  In every reachable state no two entries of the
\* form's collection share an id, and no two entries of the collection in the
\* store do; the length of the collection is the number of its records: an
\* addition makes it one longer, a removal one shorter, and no edit, type
\* change, commit or resumption of a handler changes it.
C15_IdentityUnique ==
    /\ [](UniqueIds(values) /\ UniqueIds(accounts))
    /\ [][ /\ addAccount => Len(values') = Len(values) + 1
           /\ \A index \in Rows :
                 deleteAccount(index) => Len(values') = Len(values) - 1
           /\ (\/ EditWith(SeqTagInputs) \/ Resumption
               \/ \E index \in Rows, value \in AccountType :
                     handleTypeChange(value, index)
               \/ \E index \in Rows, field \in BlurFields :
                     onBlurField(index, field))
              => Len(values') = Len(values)
         ]_vars

\* two records, added one after the other, are in the form and in the store
C15_Witness ==
    /\ Len(values) = 2 /\ Len(accounts) = 2
    /\ Ids(values) = <<1, 2>> /\ Ids(accounts) = <<1, 2>>

-----------------------------------------------------------------------------
\* C16: removal deletes exactly the addressed entry.  A step of
\* deleteAccount(index) leaves every entry before index where it was and
\* moves every entry after index down by one position, each with its id and
\* its field values; and no edit, type change, commit or resumption of a
\* handler changes the id of any record.
C16_RemovalExact ==
    [][ /\ \A index \in Rows : deleteAccount(index) =>
              /\ Len(values') = Len(values) - 1
              /\ \A j \in Rows : j < index => values'[j] = values[j]
              /\ \A j \in Rows : j > index => values'[j - 1] = values[j]
        /\ (\/ EditWith(SeqTagInputs) \/ Resumption
            \/ \E index \in Rows, value \in AccountType :
                  handleTypeChange(value, index)
            \/ \E index \in Rows, field \in BlurFields :
                  onBlurField(index, field))
           => Ids(values') = Ids(values)
      ]_vars

\* the first of two records has just been removed: the second record, with
\* its id and its login, is now the first
C16_Witness ==
    /\ Len(values) = 1 /\ values[1].id = 2
    /\ values[1].login = <<"b", "o", "b">>
    /\ tasks # <<>> /\ tasks[1].op = "deleteAccount" /\ tasks[1].pc = "validate"

-----------------------------------------------------------------------------
\* C17: every save cycle terminates.  When handlers run in turn and every
\* awaited validation is eventually settled: a cycle in flight changes only
\* by its validation pass or by its completion; it completes in exactly one
\* of two ways, a save when its validation succeeded (the store is written
\* and the save is reported) and a rejection when it failed (the store is
\* left alone and the failure is reported); and every cycle that has called
\* validate() leads to a state in which no handler is suspended and one of
\* the two outcomes has been reported.
C17_CycleTerminates ==
    /\ [][\A k \in Tasks :
             /\ (InFlight(tasks[k]) /\ tasks' # tasks) =>
                    (Validates(k) \/ Completes(k))
             /\ Completes(k) =>
                    \/ /\ tasks[k].valid
                       /\ log' = Saved(tasks[k].op)
                       /\ accounts' = Snapshot(values)
                    \/ /\ ~tasks[k].valid
                       /\ log' = Failed(tasks[k].op)
                       /\ accounts' = accounts
         ]_vars
    /\ \A op \in {"handleTypeChange", "onBlurField", "deleteAccount"} :
          (\E k \in Tasks : tasks[k].op = op /\ tasks[k].pc = "validate")
          ~> (tasks = <<>> /\ log \in {Saved(op), Failed(op)})

\* the cycle of a commit has been rejected and no handler is suspended: the
\* form holds an invalid second record, the store the first record only
C17_Witness ==
    /\ tasks = <<>> /\ log = Failed("onBlurField")
    /\ Len(values) = 2 /\ Len(accounts) = 1
    /\ values[1] = accounts[1]

-----------------------------------------------------------------------------
\* C18: one success notification per completed save.  A step adds the
\* success toast exactly when it is the completion of a cycle whose
\* validation succeeded, which is the step that replaces the store by the
\* snapshot of the form; the toast comes with the report of the save, and a
\* step that completes a rejected cycle adds none.  Step by step, the number
\* of toasts added therefore equals the number of completed calls of
\* saveAccounts.
C18_ToastPerSave ==
    [][ /\ log'.toast = "success" <=>
               \E k \in Tasks : /\ Completes(k) /\ tasks[k].valid
                                /\ accounts' = Snapshot(values)
        /\ log'.toast = "success" => log'.msg = "Accounts saved"
        /\ accounts' # accounts => log'.toast = "success"
        /\ \A k \in Tasks : (Completes(k) /\ ~tasks[k].valid) =>
               (log'.toast = "-" /\ accounts' = accounts)
      ]_vars

\* a save has just been notified while a second cycle, whose validation
\* succeeded as well, has yet to complete: a second notification will follow
C18_Witness ==
    /\ log.toast = "success"
    /\ accounts # <<>>
    /\ \E k \in Tasks : tasks[k].pc = "validated" /\ tasks[k].valid

-----------------------------------------------------------------------------
\* C19: normalisation changes nothing but id and password.  When a cycle
\* writes the store, the written collection has the length and the order of
\* the form's collection at that moment, and each written record has the
\* login, the type and the tags of its source record, its id if the source
\* has one, and its password unless the source is a directory (ldap) record
\* whose password is empty or null.
C19_NormalizationFrame ==
    [][\A k \in Tasks : (Completes(k) /\ tasks[k].valid) =>
          /\ Len(accounts') = Len(values)
          /\ \A i \in Rows :
                /\ accounts'[i].login = values[i].login
                /\ accounts'[i].type = values[i].type
                /\ accounts'[i].tags = values[i].tags
                /\ values[i].id # NoId => accounts'[i].id = values[i].id
                /\ ~(values[i].type = ldap
                       /\ values[i].password \in {EmptyText, Null})
                   => accounts'[i].password = values[i].password
      ]_vars

\* two records have been saved in their order: a directory record whose
\* empty password became null, and a local record with its password as typed
C19_Witness ==
    /\ log.msg = "Accounts saved"
    /\ Len(accounts) = 2 /\ Ids(accounts) = <<1, 2>>
    /\ accounts[1].type = ldap /\ accounts[1].password = Null
    /\ values[1].password = EmptyText
    /\ accounts[2].type = local /\ accounts[2].password = <<"x">>
    /\ accounts[2].tags = << <<"a">>, <<"b">> >>

-----------------------------------------------------------------------------
\* a local record that still has an empty login or an empty password, as a
\* record is when it has just been added
Incomplete(r) ==
    /\ r.type = local
    /\ r.login = EmptyText \/ r.password = EmptyText

\* C20: a freshly added record blocks persistence.  A step of addAccount
\* starts no save cycle and leaves the store unchanged; a validation pass
\* over a collection that holds an incomplete local record fails; and no step
\* writes the store while the collection holds such a record.
C20_FreshRecordBlocks ==
    [][ /\ addAccount => (tasks' = tasks /\ accounts' = accounts)
        /\ \A k \in Tasks :
              (Validates(k) /\ \E i \in Rows : Incomplete(values[i]))
              => ~tasks'[k].valid
        /\ (\E i \in Rows : Incomplete(values[i])) =>
              (accounts' = accounts /\ log'.msg # "Accounts saved")
      ]_vars

====
